---- MODULE Spec2Model ----
(***************************************************************************)
(* Model of src/climate_app.py: the Streamlit script main(), the cached    *)
(* initialize_ee(), the per-year loop of analyze_point_climate() and the   *)
(* pure classifier classify_climate_type().                                *)
(*                                                                         *)
(* Numbers.  The program computes with floats (degrees, millimetres,       *)
(* Kelvin, metres).  The model keeps every such quantity as a fixed-point  *)
(* integer with three decimals: the quantity v is the integer v * Scale.   *)
(* So -3 degC is -3000, 273.15 K is 273150 and 0.001 m is 1.  Years are    *)
(* plain integers.                                                         *)
(***************************************************************************)
EXTENDS Integers, Sequences, FiniteSets

VARIABLES
    pc,            \* position of the running script
    ee_cache,      \* st.cache_resource store of initialize_ee: <<>> or <<result>>
    ee_calls,      \* calls made to ee.Initialize / ee.Authenticate, with outcome
    widgets,       \* TRUE once this run has rendered the inputs and the button
    clicked,       \* value st.button returns in this run
    point,         \* <<input_lat, input_lon>>
    start_year,    \* value of the "Start Year" number input
    end_year,      \* value of the "End Year" number input
    year,          \* loop variable of analyze_point_climate
    temp_value,    \* reply to the temperature request of the current year
    climate_data,  \* list local to analyze_point_climate
    climate_df,    \* value main binds to climate_df
    remote,        \* blocking getInfo() requests issued in this run
    ui,            \* elements written to the page in this run
    csv_data,      \* rows handed to the table and the download button
    tmean_in,      \* classifier harness: first argument
    prec_in,       \* classifier harness: second argument
    label          \* classifier harness: result ("" before the call)

vars == <<pc, ee_cache, ee_calls, widgets, clicked, point, start_year, end_year,
          year, temp_value, climate_data, climate_df, remote, ui, csv_data,
          tmean_in, prec_in, label>>

appvars == <<pc, ee_cache, ee_calls, widgets, clicked, point, start_year,
             end_year, year, temp_value, climate_data, climate_df, remote, ui,
             csv_data>>

clsvars == <<tmean_in, prec_in, label>>

(***************************************************************************)
(* Bounds and program constants                                            *)
(***************************************************************************)
Scale == 10 * 10 * 10

MaxSpan == 2

MaxDelta == 2

MinYear == 1979

MaxYear == 2022

DefaultStart == 2010

DefaultEnd == 2022

MmPerMetre == 1000

KelvinOffset == (27315 * Scale) \div 100

DefaultPoint == <<51178, -115571>>

Points == {DefaultPoint, <<0, 0>>}

YearInputs ==
    {y \in MinYear..MaxYear :
        y <= MinYear + MaxSpan \/ y \in {DefaultStart, DefaultEnd}}

\* yearly mean temperatures the dataset may hold, in Kelvin
RawTemps == {270150, 273150}

\* yearly precipitation sums the dataset may hold, in metres
RawPrecs == {1, 600}

\* what the dataset holds for a band in a year: <<v>>, or <<>> when the
\* year has no image, in which case the reduced image has no band
SourceValues(raws) == {<<v>> : v \in raws} \cup {<<>>}

TempThresholds == {-3 * Scale, 18 * Scale}

PrecThresholds == {400 * Scale, 500 * Scale, 600 * Scale}

TempSamples ==
    {th + d : th \in TempThresholds, d \in (-MaxDelta)..MaxDelta}
        \cup {-5 * Scale, 10 * Scale, 25 * Scale}

PrecSamples ==
    {th + d : th \in PrecThresholds, d \in (-MaxDelta)..MaxDelta}
        \cup {200 * Scale, 300 * Scale, 700 * Scale, 800 * Scale}

(***************************************************************************)
(* Pure functions                                                          *)
(***************************************************************************)
classify_warm_500(tmean, prec) ==
    IF tmean < -3 * Scale
    THEN IF prec < 400 * Scale THEN "ET - Tundra" ELSE "Df - Continental"
    ELSE IF tmean < 18 * Scale
         THEN IF prec < 500 * Scale THEN "BS - Semi-arid" ELSE "Cf - Temperate"
         ELSE IF prec < 500 * Scale THEN "BW - Arid" ELSE "Af - Tropical"

classify_closed_intervals(tmean, prec) ==
    IF tmean <= -3 * Scale
    THEN IF prec <= 400 * Scale THEN "ET - Tundra" ELSE "Df - Continental"
    ELSE IF tmean <= 18 * Scale
         THEN IF prec <= 500 * Scale THEN "BS - Semi-arid" ELSE "Cf - Temperate"
         ELSE IF prec <= 600 * Scale THEN "BW - Arid" ELSE "Af - Tropical"

classify_climate_type(tmean, prec) ==
    IF tmean < -3 * Scale
    THEN IF prec < 400 * Scale THEN "ET - Tundra" ELSE "Df - Continental"
    ELSE IF tmean < 18 * Scale
         THEN IF prec < 500 * Scale THEN "BS - Semi-arid" ELSE "Cf - Temperate"
         ELSE IF prec < 600 * Scale THEN "BW - Arid" ELSE "Af - Tropical"

\* .subtract(273.15)
KelvinToCelsius(k) == k - KelvinOffset

\* .multiply(1000); on fixed-point numbers the product has the scale of m
MetresToMm(m) == m * MmPerMetre

range_stop_exclusive(e) == e

\* the exclusive stop of range(start_year, end_year + 1)
range_stop(e) == e + 1

NextYearSkipping(y) == y + 2

\* the step of range()
NextYear(y) == y + 1

RangeRejectedOnlyEqual(s, e) == s = e

RangeRejectedOnlyGreater(s, e) == s > e

\* if start_year >= end_year
RangeRejected(s, e) == s >= e

\* reply.get(band, default): a reply is <<value>>, or <<>> without the band
dict_get(reply, default) ==
    IF reply = <<>> THEN default ELSE reply[1]

TempReplyUnconverted(src) == src

\* getInfo() of the reduced, converted temperature image
TempReply(src) ==
    IF src = <<>> THEN <<>> ELSE <<KelvinToCelsius(src[1])>>

\* getInfo() of the reduced, converted precipitation image
PrecipReply(src) ==
    IF src = <<>> THEN <<>> ELSE <<MetresToMm(src[1])>>

NoneDf == [is_none |-> TRUE, rows |-> <<>>]

DataFrame(rows) == [is_none |-> FALSE, rows |-> rows]

FailureResultPartial(data) == DataFrame(data)

\* except Exception: ... return None
FailureResult(data) == NoneDf

\* climate_df is not None and not climate_df.empty
has_data(df) == ~df.is_none /\ Len(df.rows) > 0

initialize_ee_always_true(first_ok, auth_ok, second_ok) ==
    [status |-> TRUE, message |-> "Earth Engine connected successfully"]

\* the three calls' outcomes decide the returned (status, message)
initialize_ee(first_ok, auth_ok, second_ok) ==
    IF first_ok
    THEN [status |-> TRUE, message |-> "Earth Engine connected successfully"]
    ELSE IF auth_ok /\ second_ok
         THEN [status |-> TRUE,
               message |-> "Earth Engine authenticated and connected"]
         ELSE [status |-> FALSE,
               message |-> "Earth Engine initialization failed"]

\* the calls initialize_ee makes before it returns
ee_call_log(first_ok, auth_ok, second_ok) ==
    IF first_ok
    THEN <<[call |-> "Initialize", ok |-> TRUE]>>
    ELSE IF ~auth_ok
         THEN <<[call |-> "Initialize", ok |-> FALSE],
                [call |-> "Authenticate", ok |-> FALSE]>>
         ELSE <<[call |-> "Initialize", ok |-> FALSE],
                [call |-> "Authenticate", ok |-> TRUE],
                [call |-> "Initialize", ok |-> second_ok]>>

\* climate_df.apply(lambda row: classify_climate_type(...), axis=1)
RECURSIVE with_climate_type(_)
with_climate_type(rows) ==
    IF rows = <<>> THEN <<>>
    ELSE <<[year |-> Head(rows).year,
            tmean_annual |-> Head(rows).tmean_annual,
            prec_annual |-> Head(rows).prec_annual,
            climate_type |-> classify_climate_type(Head(rows).tmean_annual,
                                                  Head(rows).prec_annual)]>>
         \o with_climate_type(Tail(rows))

\* a blocking request as the service sees it; raw is the source value the
\* service reduced (<<>> when there was none or the request failed)
Request(y, band, raw, ok) ==
    [year |-> y, band |-> band, raw |-> raw, ok |-> ok, point |-> point]

(***************************************************************************)
(* Initial state: the first run of the script in a fresh session           *)
(***************************************************************************)
AppInit ==
    /\ pc = "start"
    /\ ee_cache = <<>>
    /\ ee_calls = <<>>
    /\ widgets = FALSE
    /\ clicked = FALSE
    /\ point = DefaultPoint
    /\ start_year = DefaultStart
    /\ end_year = DefaultEnd
    /\ year = 0
    /\ temp_value = <<>>
    /\ climate_data = <<>>
    /\ climate_df = NoneDf
    /\ remote = <<>>
    /\ ui = <<>>
    /\ csv_data = <<>>

Init ==
    /\ AppInit
    /\ tmean_in = 0
    /\ prec_in = 0
    /\ label = ""

(***************************************************************************)
(* main, lines 224-232: connect, or stop the script                        *)
(***************************************************************************)
InitializeEE ==
    /\ pc = "start"
    /\ \E first_ok \in BOOLEAN, auth_ok \in BOOLEAN, second_ok \in BOOLEAN :
        LET miss == ee_cache = <<>>
            res == IF miss THEN initialize_ee(first_ok, auth_ok, second_ok)
                   ELSE ee_cache[1]
        IN  /\ ee_cache' = <<res>>
            /\ ee_calls' = IF miss
                           THEN ee_call_log(first_ok, auth_ok, second_ok)
                           ELSE ee_calls
            /\ IF res.status
               THEN /\ ui' = ui \o <<"success">>
                    /\ pc' = "controls"
               ELSE /\ ui' = ui \o <<"error_init", "info_authenticate">>
                    /\ pc' = "stopped"
    /\ UNCHANGED <<widgets, clicked, point, start_year, end_year, year,
                   temp_value, climate_data, climate_df, remote, csv_data>>
    /\ UNCHANGED clsvars

(***************************************************************************)
(* main, lines 234-259 and 296-330: the inputs, the button, the range      *)
(* check and the entry into analyze_point_climate (lines 63-71)            *)
(***************************************************************************)
Controls ==
    /\ pc = "controls"
    /\ widgets' = TRUE
    /\ IF ~clicked
       THEN /\ ui' = ui \o <<"about">>
            /\ pc' = "done"
            /\ UNCHANGED <<year, climate_data, climate_df>>
       ELSE IF RangeRejected(start_year, end_year)
       THEN /\ ui' = ui \o <<"error_range">>
            /\ pc' = "stopped"
            /\ UNCHANGED <<year, climate_data, climate_df>>
       ELSE IF start_year < range_stop(end_year)
       THEN /\ year' = start_year
            /\ climate_data' = <<>>
            /\ pc' = "temp"
            /\ UNCHANGED <<ui, climate_df>>
       ELSE /\ climate_df' = DataFrame(<<>>)
            /\ climate_data' = <<>>
            /\ pc' = "render"
            /\ UNCHANGED <<ui, year>>
    /\ UNCHANGED <<ee_cache, ee_calls, clicked, point, start_year, end_year,
                   temp_value, remote, csv_data>>
    /\ UNCHANGED clsvars

(***************************************************************************)
(* analyze_point_climate, lines 72-86: the temperature request of a year   *)
(***************************************************************************)
GetTemp ==
    /\ pc = "temp"
    /\ \/ \E raw \in SourceValues(RawTemps) :
            /\ remote' = Append(remote, Request(year, "temp", raw, TRUE))
            /\ temp_value' = TempReply(raw)
            /\ pc' = "precip"
            /\ UNCHANGED <<ui, climate_data, climate_df, year>>
       \/ /\ remote' = Append(remote, Request(year, "temp", <<>>, FALSE))
          /\ ui' = ui \o <<"error_analysis">>
          /\ climate_df' = FailureResult(climate_data)
          /\ climate_data' = <<>>
          /\ temp_value' = <<>>
          /\ year' = 0
          /\ pc' = "render"
    /\ UNCHANGED <<ee_cache, ee_calls, widgets, clicked, point, start_year,
                   end_year, csv_data>>
    /\ UNCHANGED clsvars

(***************************************************************************)
(* analyze_point_climate, lines 88-105: the precipitation request of a     *)
(* year, the append, the next iteration or the return                      *)
(***************************************************************************)
GetPrecip ==
    /\ pc = "precip"
    /\ \/ \E raw \in SourceValues(RawPrecs) :
            LET precip_value == PrecipReply(raw)
                rec == [year |-> year,
                        tmean_annual |-> dict_get(temp_value, 0),
                        prec_annual |-> dict_get(precip_value, 0)]
                data == Append(climate_data, rec)
            IN  /\ remote' = Append(remote, Request(year, "precip", raw, TRUE))
                /\ temp_value' = <<>>
                /\ IF NextYear(year) < range_stop(end_year)
                   THEN /\ year' = NextYear(year)
                        /\ climate_data' = data
                        /\ pc' = "temp"
                        /\ UNCHANGED climate_df
                   ELSE /\ climate_df' = DataFrame(data)
                        /\ climate_data' = <<>>
                        /\ year' = 0
                        /\ pc' = "render"
                /\ UNCHANGED ui
       \/ /\ remote' = Append(remote, Request(year, "precip", <<>>, FALSE))
          /\ ui' = ui \o <<"error_analysis">>
          /\ climate_df' = FailureResult(climate_data)
          /\ climate_data' = <<>>
          /\ temp_value' = <<>>
          /\ year' = 0
          /\ pc' = "render"
    /\ UNCHANGED <<ee_cache, ee_calls, widgets, clicked, point, start_year,
                   end_year, csv_data>>
    /\ UNCHANGED clsvars

(***************************************************************************)
(* main, lines 261-330: results or warning, then the rest of the page      *)
(***************************************************************************)
Render ==
    /\ pc = "render"
    /\ IF has_data(climate_df)
       THEN /\ csv_data' = with_climate_type(climate_df.rows)
            /\ ui' = ui \o <<"results", "dashboard", "chart", "table",
                             "download", "about">>
       ELSE /\ csv_data' = <<>>
            /\ ui' = ui \o <<"warning_nodata", "about">>
    /\ pc' = "done"
    /\ UNCHANGED <<ee_cache, ee_calls, widgets, clicked, point, start_year,
                   end_year, year, temp_value, climate_data, climate_df,
                   remote>>
    /\ UNCHANGED clsvars

(***************************************************************************)
(* The next user interaction: Streamlit runs the script again from the     *)
(* top.  The inputs and the button can be used only if the previous run    *)
(* rendered them.  The cache of initialize_ee survives.                    *)
(***************************************************************************)
Rerun ==
    /\ pc \in {"done", "stopped"}
    /\ IF widgets
       THEN \E s \in YearInputs, e \in YearInputs, p \in Points, c \in BOOLEAN :
               /\ c => e - s <= MaxSpan
               /\ start_year' = s
               /\ end_year' = e
               /\ point' = p
               /\ clicked' = c
       ELSE /\ clicked' = FALSE
            /\ UNCHANGED <<start_year, end_year, point>>
    /\ widgets' = FALSE
    /\ pc' = "start"
    /\ year' = 0
    /\ temp_value' = <<>>
    /\ climate_data' = <<>>
    /\ climate_df' = NoneDf
    /\ remote' = <<>>
    /\ ui' = <<>>
    /\ csv_data' = <<>>
    /\ UNCHANGED <<ee_cache, ee_calls>>
    /\ UNCHANGED clsvars

Next ==
    \/ InitializeEE
    \/ Controls
    \/ GetTemp
    \/ GetPrecip
    \/ Render
    \/ Rerun

Spec == Init /\ [][Next]_vars

(***************************************************************************)
(* The classifier on its own: arguments drawn around the thresholds        *)
(***************************************************************************)
InitClassify ==
    /\ AppInit
    /\ tmean_in \in TempSamples
    /\ prec_in \in PrecSamples
    /\ label = ""

Classify ==
    /\ label = ""
    /\ label' = classify_climate_type(tmean_in, prec_in)
    /\ UNCHANGED <<tmean_in, prec_in>>
    /\ UNCHANGED appvars

NextClassify == Classify

SpecClassify == InitClassify /\ [][NextClassify]_vars

(***************************************************************************)
(* Vocabulary of the properties                                            *)
(***************************************************************************)
Shown(e) == \E i \in 1..Len(ui) : ui[i] = e

Returned == pc \in {"render", "done"} /\ clicked

Succeeded == Returned /\ ~climate_df.is_none

RemoteFailed == \E i \in 1..Len(remote) : ~remote[i].ok

NumYears == end_year - start_year + 1

ConnectFailed == ee_calls # <<>> /\ ~ee_calls[Len(ee_calls)].ok

Connected == ee_calls # <<>> /\ ee_calls[Len(ee_calls)].ok

PastRangeCheck == clicked /\ Connected /\ pc \notin {"start", "controls"}

ResultElements == {"results", "dashboard", "chart", "table", "download"}

Messages ==
    {i \in 1..Len(ui) :
        ui[i] \in {"error_init", "error_range", "error_analysis",
                   "warning_nodata"}}

\* the decision table of the specification, with its two-letter labels
TableCode(t, p) ==
    IF t < -3000 THEN (IF p < 400000 THEN "ET" ELSE "Df")
    ELSE IF t < 18000 THEN (IF p < 500000 THEN "BS" ELSE "Cf")
    ELSE (IF p < 600000 THEN "BW" ELSE "Af")

\* the string the program returns for each two-letter label
FullLabel(code) ==
    CASE code = "ET" -> "ET - Tundra"
      [] code = "Df" -> "Df - Continental"
      [] code = "BS" -> "BS - Semi-arid"
      [] code = "Cf" -> "Cf - Temperate"
      [] code = "BW" -> "BW - Arid"
      [] code = "Af" -> "Af - Tropical"

(***************************************************************************)
(* C1                                                                      *)
(***************************************************************************)
\* C1 (as stated): the classifier returns exactly the two-letter label of
\* the decision table ("ET", "Df", "BS", "Cf", "BW" or "Af").
C1_Original ==
    label # "" => label = TableCode(tmean_in, prec_in)

\* C1 (amended): the classifier follows the decision table, and what it
\* returns is the long label of the cell: "ET - Tundra", "Df - Continental",
\* "BS - Semi-arid", "Cf - Temperate", "BW - Arid" or "Af - Tropical".
C1_Table ==
    label # "" =>
        /\ label = FullLabel(TableCode(tmean_in, prec_in))
        /\ label \in {FullLabel(c) : c \in {"ET", "Df", "BS", "Cf", "BW", "Af"}}

C1_Witness ==
    /\ tmean_in = 25000
    /\ prec_in = 599999
    /\ label = "BW - Arid"

(***************************************************************************)
(* C2                                                                      *)
(***************************************************************************)
\* C2: the temperature intervals are closed-open.  Exactly -3 degC is
\* classified by the middle branch (BS or Cf) and exactly 18 degC by the hot
\* branch (BW or Af); a precipitation equal to the threshold of its branch
\* (400, 500, 600 mm) gives the wetter label of that branch (Df, Cf, Af).
C2_ClosedOpen ==
    label # "" =>
        /\ tmean_in = -3000 => label \in {"BS - Semi-arid", "Cf - Temperate"}
        /\ tmean_in = 18000 => label \in {"BW - Arid", "Af - Tropical"}
        /\ (tmean_in < -3000 /\ prec_in = 400000) => label = "Df - Continental"
        /\ (tmean_in >= -3000 /\ tmean_in < 18000 /\ prec_in = 500000)
              => label = "Cf - Temperate"
        /\ (tmean_in >= 18000 /\ prec_in = 600000) => label = "Af - Tropical"

C2_Witness ==
    /\ tmean_in = -3000
    /\ prec_in = 500000
    /\ label = "Cf - Temperate"

(***************************************************************************)
(* C3                                                                      *)
(***************************************************************************)
\* C3: when Analyze is pressed with start year > end year the request is
\* rejected: the range error is shown, the script stops, and no remote
\* request is issued at any point of that interaction.
C3_RejectBeforeRemote ==
    (clicked /\ start_year > end_year) =>
        /\ remote = <<>>
        /\ climate_df.is_none
        /\ csv_data = <<>>
        /\ pc \in {"start", "controls", "stopped"}
        /\ (pc = "stopped" /\ Connected) =>
              (ui # <<>> /\ ui[Len(ui)] = "error_range")

C3_Witness ==
    /\ clicked
    /\ start_year > end_year
    /\ pc = "stopped"
    /\ Shown("error_range")

(***************************************************************************)
(* C4                                                                      *)
(***************************************************************************)
\* C4 (as stated): every pressed request with start year <= end year, both
\* within 1979..2022, passes the range check; start year = end year too.
C4_Original ==
    (PastRangeCheck /\ start_year <= end_year
        /\ start_year \in 1979..2022 /\ end_year \in 1979..2022) =>
        /\ ~Shown("error_range")
        /\ pc # "stopped"

\* C4 (amended): every pressed request with start year < end year, both
\* within 1979..2022, passes the range check and the loop runs over the
\* inclusive range start..end; a request with start year = end year is
\* rejected with the range error and analyses nothing.
C4_StrictRange ==
    (PastRangeCheck /\ start_year \in 1979..2022 /\ end_year \in 1979..2022) =>
        /\ start_year < end_year =>
              /\ ~Shown("error_range")
              /\ pc \in {"temp", "precip", "render", "done"}
              /\ pc \in {"temp", "precip"} =>
                    (year \in start_year..end_year
                        /\ Len(climate_data) = year - start_year)
              /\ Succeeded =>
                    (/\ Len(climate_df.rows) = end_year - start_year + 1
                     /\ climate_df.rows[1].year = start_year
                     /\ climate_df.rows[Len(climate_df.rows)].year = end_year)
        /\ start_year = end_year =>
              /\ Shown("error_range")
              /\ pc = "stopped"
              /\ remote = <<>>

C4_Witness ==
    /\ Succeeded
    /\ start_year < end_year
    /\ pc = "done"
    /\ Len(csv_data) = end_year - start_year + 1

(***************************************************************************)
(* C5                                                                      *)
(***************************************************************************)
\* C5: a remote failure while a year is processed aborts the batch.  The
\* failed request is the last request of the interaction (no later year is
\* requested, nothing is retried), the function returns None whatever it had
\* collected, and no result, chart, table or download is produced.
C5_AbortWholeBatch ==
    \A i \in 1..Len(remote) :
        ~remote[i].ok =>
            /\ i = Len(remote)
            /\ pc \in {"render", "done"}
            /\ climate_df.is_none
            /\ climate_df.rows = <<>>
            /\ csv_data = <<>>
            /\ \A e \in ResultElements : ~Shown(e)

C5_Witness ==
    /\ pc = "done"
    /\ Len(remote) >= 3
    /\ ~remote[Len(remote)].ok
    /\ remote[1].ok
    /\ remote[2].ok
    /\ remote[Len(remote)].year > start_year
    /\ climate_df.is_none

(***************************************************************************)
(* C6                                                                      *)
(***************************************************************************)
\* C6: a remote failure surfaces exactly one message, the error string; the
\* "no data" warning is shown only when the analysis completed without error
\* and returned an empty result set, never after a remote failure.
C6_SingleMessage ==
    pc = "done" =>
        /\ RemoteFailed =>
              (/\ Cardinality(Messages) = 1
               /\ Shown("error_analysis")
               /\ ~Shown("warning_nodata"))
        /\ Shown("warning_nodata") =>
              (/\ ~RemoteFailed
               /\ ~climate_df.is_none
               /\ climate_df.rows = <<>>)

(***************************************************************************)
(* C7                                                                      *)
(***************************************************************************)
AscendingFrom(rows, s) ==
    \A i \in 1..Len(rows) : rows[i].year = s + i - 1

\* C7: a call that completes without a remote failure returns exactly one
\* record per year of start..end, in ascending order, none missing and none
\* twice; during the loop the list collected so far is the ascending prefix
\* of that range.
C7_OneRecordPerYear ==
    /\ pc \in {"temp", "precip"} =>
          /\ AscendingFrom(climate_data, start_year)
          /\ Len(climate_data) = year - start_year
          /\ Len(climate_data) < NumYears
    /\ Succeeded =>
          /\ Len(climate_df.rows) = NumYears
          /\ AscendingFrom(climate_df.rows, start_year)
          /\ climate_df.rows[1].year = start_year
          /\ climate_df.rows[NumYears].year = end_year

C7_Witness ==
    /\ Succeeded
    /\ NumYears = 3
    /\ Len(climate_df.rows) = 3
    /\ climate_df.rows[2].year = start_year + 1

(***************************************************************************)
(* C8                                                                      *)
(***************************************************************************)
RowsSoFar == IF pc \in {"temp", "precip"} THEN climate_data ELSE climate_df.rows

TempRequest(y) ==
    CHOOSE j \in 1..Len(remote) : remote[j].band = "temp" /\ remote[j].year = y

PrecipRequest(y) ==
    CHOOSE j \in 1..Len(remote) : remote[j].band = "precip" /\ remote[j].year = y

\* C8 (as stated): every recorded value is unit-converted.  The temperature
\* of a record is the Kelvin value of the source for that year minus 273.15,
\* the precipitation is the metre value times 1000.  (Three decimals:
\* 273.15 K is 273150, 0.001 m is 1, 1.0 mm is 1000.)
C8_Original ==
    \A i \in 1..Len(RowsSoFar) :
        \E j \in 1..Len(remote), k \in 1..Len(remote) :
            /\ remote[j].band = "temp"
            /\ remote[j].year = RowsSoFar[i].year
            /\ remote[j].ok
            /\ remote[j].raw # <<>>
            /\ RowsSoFar[i].tmean_annual = remote[j].raw[1] - 273150
            /\ remote[k].band = "precip"
            /\ remote[k].year = RowsSoFar[i].year
            /\ remote[k].ok
            /\ remote[k].raw # <<>>
            /\ RowsSoFar[i].prec_annual = remote[k].raw[1] * 1000

\* C8 (amended): a recorded value is unit-converted whenever the reply
\* carries the band: the temperature is the source Kelvin value minus 273.15
\* and the precipitation the source metre value times 1000.  When the reply
\* lacks the band, the record holds the literal 0 instead.
C8_UnitConversion ==
    \A i \in 1..Len(RowsSoFar) :
        LET row == RowsSoFar[i]
            t == remote[TempRequest(row.year)]
            p == remote[PrecipRequest(row.year)]
        IN  /\ t.ok /\ p.ok
            /\ t.raw # <<>> => row.tmean_annual = t.raw[1] - 273150
            /\ t.raw = <<>> => row.tmean_annual = 0
            /\ p.raw # <<>> => row.prec_annual = p.raw[1] * 1000
            /\ p.raw = <<>> => row.prec_annual = 0

C8_Witness ==
    /\ Succeeded
    /\ remote[1].band = "temp"
    /\ remote[1].raw = <<273150>>
    /\ remote[2].band = "precip"
    /\ remote[2].raw = <<1>>
    /\ climate_df.rows[1].tmean_annual = 0
    /\ climate_df.rows[1].prec_annual = 1000
    /\ remote[3].raw = <<>>
    /\ remote[4].raw = <<>>
    /\ climate_df.rows[2].tmean_annual = 0
    /\ climate_df.rows[2].prec_annual = 0

(***************************************************************************)
(* C9                                                                      *)
(***************************************************************************)
\* C9 (as stated): one blocking request per year; a run without failures
\* issues end - start + 1 requests.
C9_Original ==
    Succeeded => Len(remote) = end_year - start_year + 1

\* C9 (amended): two blocking requests per year, the temperature request and
\* then the precipitation request; a run without failures issues
\* 2 * (end - start + 1) requests, in ascending year order.
C9_TwoRequestsPerYear ==
    /\ \A i \in 1..Len(remote) :
          /\ remote[i].year = start_year + ((i - 1) \div 2)
          /\ remote[i].band = (IF i % 2 = 1 THEN "temp" ELSE "precip")
          /\ remote[i].year <= end_year
    /\ Succeeded => Len(remote) = 2 * (end_year - start_year + 1)

C9_Witness ==
    /\ Succeeded
    /\ end_year - start_year = 2
    /\ Len(remote) = 6
    /\ remote[5].year = end_year
    /\ remote[6].band = "precip"

(***************************************************************************)
(* C10                                                                     *)
(***************************************************************************)
\* C10: if connecting fails (Initialize raises and the Authenticate then
\* Initialize fallback raises), main stops before the inputs: the inputs are
\* never rendered, no request is issued and no result, chart or download is
\* produced; requests occur only after a successful initialization.
C10_NoAnalysisWithoutConnection ==
    /\ ConnectFailed =>
          /\ pc \in {"start", "stopped"}
          /\ ~widgets
          /\ ~clicked
          /\ remote = <<>>
          /\ csv_data = <<>>
          /\ \A e \in ResultElements : ~Shown(e)
    /\ remote # <<>> => Connected

C10_Witness ==
    /\ ConnectFailed
    /\ Len(ee_calls) = 3
    /\ pc = "stopped"
    /\ Shown("error_init")

====
